---- MODULE Spec2Model ----
(***************************************************************************)
(* Mergington High School activities API (src/src/app.py).                 *)
(*                                                                         *)
(* State: the module-level dict `activities` and, for every worker thread  *)
(* of the server's thread pool, the handler it runs, its arguments and its *)
(* position in the handler. The handlers are plain `def` functions, so     *)
(* they run on pool threads and interleave between their statements.       *)
(***************************************************************************)
EXTENDS Integers, Sequences, FiniteSets, TLC

VARIABLES
    activities,   \* app.py:22   name -> [description, schedule, max_participants, participants]
    pc,           \* per thread: "idle", "check" (before l.106/128), "mutate" (before l.113/135), "done"
    call,         \* per thread: the endpoint it runs and its arguments
    response,     \* per thread: the HTTP status its call ended with (0: none yet)
    pre,          \* history: `activities` when the most recent call was entered
    last          \* history: the most recent call that returned

vars == <<activities, pc, call, response, pre, last>>

----------------------------------------------------------------------------
(* Bounds                                                                  *)

NumThreads == 2
\* fresh students available to fill one activity beyond its capacity
NumStudents == 9

Threads == 1..NumThreads

----------------------------------------------------------------------------
(* The seed data, app.py:22-77 (two of the nine activities are driven by   *)
(* the general specifications, a third one by the capacity specification). *)

ChessClub == "Chess Club"
ProgrammingClass == "Programming Class"
MathClub == "Math Club"
UnknownClub == "Unknown Club"

Michael == "michael@mergington.edu"
Daniel == "daniel@mergington.edu"
Emma == "emma@mergington.edu"
Sophia == "sophia@mergington.edu"
James == "james@mergington.edu"
Benjamin == "benjamin@mergington.edu"
NewStudent == "new@mergington.edu"

SeedActivities ==
    (ChessClub :> [description |-> "Learn strategies and compete in chess tournaments",
                   schedule |-> "Fridays, 3:30 PM - 5:00 PM",
                   max_participants |-> 12,
                   participants |-> <<Michael, Daniel>>])
 @@ (ProgrammingClass :> [description |-> "Learn programming fundamentals and build software projects",
                   schedule |-> "Tuesdays and Thursdays, 3:30 PM - 4:30 PM",
                   max_participants |-> 20,
                   participants |-> <<Emma, Sophia>>])
 @@ (MathClub :> [description |-> "Solve challenging problems and participate in math competitions",
                   schedule |-> "Tuesdays, 3:30 PM - 4:30 PM",
                   max_participants |-> 10,
                   participants |-> <<James, Benjamin>>])

\* the inputs of the general specifications
ActivityNames == {ChessClub, ProgrammingClass, UnknownClub}
Emails == {Michael, NewStudent}

\* the inputs of the capacity specification
Student(k) == "student" \o ToString(k) \o "@mergington.edu"

----------------------------------------------------------------------------
(* Routing: the decorators register the routes in source order and a       *)
(* request is served by the first route whose method and path match.       *)

SignupPath == "/activities/{activity_name}/signup"
UnregisterPath == "/activities/{activity_name}/unregister"

Routes ==
    << [method |-> "GET",    path |-> "/",            endpoint |-> "root"],
       [method |-> "GET",    path |-> "/activities",  endpoint |-> "get_activities"],
       [method |-> "POST",   path |-> SignupPath,     endpoint |-> "SignupRequest"],
       [method |-> "POST",   path |-> SignupPath,     endpoint |-> "signup_for_activity"],
       [method |-> "DELETE", path |-> UnregisterPath, endpoint |-> "unregister_from_activity"] >>

Matching(method, path) ==
    {i \in 1..Len(Routes) : Routes[i].method = method /\ Routes[i].path = path}

FirstMatch(method, path) ==
    CHOOSE i \in Matching(method, path) : \A j \in Matching(method, path) : i <= j

Dispatch(method, path) == Routes[FirstMatch(method, path)].endpoint

HttpRequests ==
    {<<Routes[i].method, Routes[i].path>> : i \in 1..Len(Routes)}

----------------------------------------------------------------------------
(* The statements of the handlers                                          *)

\* variant: the existence check left out
HasActivityUnchecked(name) == TRUE

\* `activity_name not in activities`, negated (l.99, l.121)
HasActivity(name) == name \in DOMAIN activities

\* variant: only the head of the list is compared
IsEnrolledHeadOnly(email, participants) ==
    Len(participants) > 0 /\ participants[1] = email

\* `request.email in activity["participants"]` (l.106, l.128)
IsEnrolled(email, participants) ==
    \E i \in 1..Len(participants) : participants[i] = email

\* variant: insert(0, email) instead of append
PrependEmail(participants, email) == <<email>> \o participants

\* `activity["participants"].append(request.email)` (l.113)
AppendEmail(participants, email) == Append(participants, email)

\* index of the first occurrence, for list.remove
FirstIndex(email, participants) ==
    CHOOSE i \in 1..Len(participants) :
        /\ participants[i] = email
        /\ \A j \in 1..(i - 1) : participants[j] # email

\* variant: pop(0) instead of remove(email)
RemoveHead(participants, email) == Tail(participants)

\* `activity["participants"].remove(request.email)` (l.135), email present
RemoveEmail(participants, email) ==
    LET k == FirstIndex(email, participants)
    IN  [i \in 1..(Len(participants) - 1) |->
            IF i < k THEN participants[i] ELSE participants[i + 1]]

\* `return activities` (l.87)
get_activities == activities

\* variant: signup also refused once max_participants is reached
SignupRefusedWhenFull(email, activity) ==
    \/ IsEnrolled(email, activity.participants)
    \/ Len(activity.participants) >= activity.max_participants

\* l.106-110: signup is refused (400) when the student is in the list
SignupRefused(email, activity) == IsEnrolled(email, activity.participants)

\* variant: the membership validation of unregister left out
UnregisterNeverRefused(email, activity) == FALSE

\* l.128-132: unregister is refused (400) when the student is not in the list
UnregisterRefused(email, activity) == ~IsEnrolled(email, activity.participants)

NoCall == [method |-> "", path |-> "", endpoint |-> "none",
           activity_name |-> "", email |-> ""]

\* the paths that carry {activity_name} and a body
HasArguments(endpoint) == endpoint \notin {"root", "get_activities"}

IsHandler(endpoint) ==
    endpoint \in {"signup_for_activity", "unregister_from_activity"}

Finish(t, status) ==
    /\ pc' = [pc EXCEPT ![t] = "done"]
    /\ response' = [response EXCEPT ![t] = status]

----------------------------------------------------------------------------
(* Actions                                                                 *)

\* A thread enters an endpoint with its arguments. For the two handlers
\* this runs the existence check of l.99-100 / l.121-122: the keys of
\* `activities` never change, so the check commutes with every other step.
Enter(t, method, path, endpoint, name, email, hasQuery) ==
    /\ pc[t] = "idle"
    /\ call' = [call EXCEPT ![t] =
                   [method |-> method, path |-> path, endpoint |-> endpoint,
                    activity_name |-> IF HasArguments(endpoint) THEN name ELSE "",
                    email |-> IF HasArguments(endpoint) THEN email ELSE ""]]
    /\ UNCHANGED activities
    /\ CASE endpoint = "root" -> Finish(t, 307)
         [] endpoint = "get_activities" -> Finish(t, 200)
         \* the model class as endpoint: `email` is a required query parameter,
         \* the instance it builds is the reply, with the default status
         [] endpoint = "SignupRequest" -> Finish(t, IF hasQuery THEN 200 ELSE 422)
         [] IsHandler(endpoint) /\ ~HasActivity(name) -> Finish(t, 404)
         [] IsHandler(endpoint) /\ HasActivity(name) ->
                /\ pc' = [pc EXCEPT ![t] = "check"]
                /\ UNCHANGED response

\* An HTTP request arrives and is routed (l.80, 85, 90, 95, 117).
Request(t, method, path, name, email, hasQuery) ==
    Enter(t, method, path, Dispatch(method, path), name, email, hasQuery)

\* signup_for_activity(activity_name, request) invoked as a function (l.96).
CallSignup(t, name, email) ==
    Enter(t, "", "", "signup_for_activity", name, email, FALSE)

\* l.103-110 and l.125-132: fetch the activity, test the membership.
CheckMember(t) ==
    /\ pc[t] = "check"
    /\ UNCHANGED <<activities, call>>
    /\ LET name == call[t].activity_name
           email == call[t].email
       IN  IF name \notin DOMAIN activities
           THEN Finish(t, 500)     \* KeyError at l.103 / l.125
           ELSE LET refuse == IF call[t].endpoint = "signup_for_activity"
                              THEN SignupRefused(email, activities[name])
                              ELSE UnregisterRefused(email, activities[name])
                IN  IF refuse
                    THEN Finish(t, 400)
                    ELSE /\ pc' = [pc EXCEPT ![t] = "mutate"]
                         /\ UNCHANGED response

\* l.113-114: append and answer 201.
SignupAppend(t) ==
    /\ pc[t] = "mutate"
    /\ call[t].endpoint = "signup_for_activity"
    /\ LET name == call[t].activity_name
       IN  activities' = [activities EXCEPT ![name].participants =
                              AppendEmail(@, call[t].email)]
    /\ Finish(t, 201)
    /\ UNCHANGED call

\* l.135-136: remove and answer 200; list.remove raises ValueError when
\* the email is no longer in the list, which nothing catches (500).
UnregisterRemove(t) ==
    /\ pc[t] = "mutate"
    /\ call[t].endpoint = "unregister_from_activity"
    /\ LET name == call[t].activity_name
           email == call[t].email
       IN  IF IsEnrolled(email, activities[name].participants)
           THEN /\ activities' = [activities EXCEPT ![name].participants =
                                     RemoveEmail(@, email)]
                /\ Finish(t, 200)
           ELSE /\ UNCHANGED activities
                /\ Finish(t, 500)
    /\ UNCHANGED call

\* The reply is sent and the thread goes back to the pool.
Return(t) ==
    /\ pc[t] = "done"
    /\ pc' = [pc EXCEPT ![t] = "idle"]
    /\ call' = [call EXCEPT ![t] = NoCall]
    /\ response' = [response EXCEPT ![t] = 0]
    /\ UNCHANGED activities

\* The history of a run in which calls are made one at a time: the store
\* as the running call found it, and the call that returned last.
Observe(t) ==
    /\ pre' = IF pc[t] = "idle" THEN activities ELSE pre
    /\ last' = IF pc[t] = "done"
               THEN [method |-> call[t].method,
                     path |-> call[t].path,
                     endpoint |-> call[t].endpoint,
                     activity_name |-> call[t].activity_name,
                     email |-> call[t].email,
                     status |-> response[t],
                     pre |-> pre]
               ELSE last

----------------------------------------------------------------------------
(* Specifications                                                          *)

Init ==
    /\ activities = SeedActivities
    /\ pc = [t \in Threads |-> "idle"]
    /\ call = [t \in Threads |-> NoCall]
    /\ response = [t \in Threads |-> 0]
    /\ pre = SeedActivities
    /\ last = [method |-> "", path |-> "", endpoint |-> "none",
               activity_name |-> "", email |-> "",
               status |-> 0, pre |-> SeedActivities]

Untracked == UNCHANGED <<pre, last>>

\* Threads interleave freely (no history is kept).
Next ==
    \/ \E t \in Threads, r \in HttpRequests, name \in ActivityNames,
          email \in Emails, hasQuery \in BOOLEAN :
            Request(t, r[1], r[2], name, email, hasQuery) /\ Untracked
    \/ \E t \in Threads, name \in ActivityNames, email \in Emails :
            CallSignup(t, name, email) /\ Untracked
    \/ \E t \in Threads : CheckMember(t) /\ Untracked
    \/ \E t \in Threads : SignupAppend(t) /\ Untracked
    \/ \E t \in Threads : UnregisterRemove(t) /\ Untracked
    \/ \E t \in Threads : Return(t) /\ Untracked

Spec == Init /\ [][Next]_vars

AllIdle == \A t \in Threads : pc[t] = "idle"

\* Calls run one at a time: a call is entered only when no other is running.
SeqNext ==
    \/ \E t \in Threads, r \in HttpRequests, name \in ActivityNames,
          email \in Emails, hasQuery \in BOOLEAN :
            AllIdle /\ Request(t, r[1], r[2], name, email, hasQuery) /\ Observe(t)
    \/ \E t \in Threads, name \in ActivityNames, email \in Emails :
            AllIdle /\ CallSignup(t, name, email) /\ Observe(t)
    \/ \E t \in Threads : CheckMember(t) /\ Observe(t)
    \/ \E t \in Threads : SignupAppend(t) /\ Observe(t)
    \/ \E t \in Threads : UnregisterRemove(t) /\ Observe(t)
    \/ \E t \in Threads : Return(t) /\ Observe(t)

SeqSpec == Init /\ [][SeqNext]_vars

\* Calls run one at a time and fill one activity: the k-th fresh student
\* signs up once the k-1 before are in, the one who came last may leave.
StudentsIn == Len(activities[MathClub].participants) - Len(SeedActivities[MathClub].participants)

CapNext ==
    \/ \E t \in Threads, k \in 1..NumStudents :
            /\ AllIdle
            /\ k <= StudentsIn + 1
            /\ CallSignup(t, MathClub, Student(k))
            /\ Observe(t)
    \/ \E t \in Threads :
            /\ AllIdle
            /\ StudentsIn >= 1
            /\ Request(t, "DELETE", UnregisterPath, MathClub, Student(StudentsIn), FALSE)
            /\ Observe(t)
    \/ \E t \in Threads : CheckMember(t) /\ Observe(t)
    \/ \E t \in Threads : SignupAppend(t) /\ Observe(t)
    \/ \E t \in Threads : UnregisterRemove(t) /\ Observe(t)
    \/ \E t \in Threads : Return(t) /\ Observe(t)

CapSpec == Init /\ [][CapNext]_vars

----------------------------------------------------------------------------
(* Properties                                                              *)

Range(seq) == {seq[i] : i \in 1..Len(seq)}
Occurrences(email, seq) == Cardinality({i \in 1..Len(seq) : seq[i] = email})
Without(seq, email) == LET Other(x) == x # email IN SelectSeq(seq, Other)

Signup == "signup_for_activity"
Unregister == "unregister_from_activity"

\* thread t has finished a call of handler h (its reply is not yet sent)
Finished(t, h) == pc[t] = "done" /\ call[t].endpoint = h

\* the call that returned last was handler h on the pair thread t's call is about
LastWasSamePair(t, h) ==
    /\ last.endpoint = h
    /\ last.activity_name = call[t].activity_name
    /\ last.email = call[t].email

NoDuplicates ==
    \A name \in DOMAIN get_activities :
        \A e \in Range(get_activities[name].participants) :
            Occurrences(e, get_activities[name].participants) = 1

\* C1: with calls made one at a time, no email is twice in a participants
\* list, and a signup repeated right after a successful signup of the same
\* pair answers 400 and leaves the email exactly once in the list.
C1_NoDuplicateEnrollment ==
    /\ NoDuplicates
    /\ \A t \in Threads :
         (Finished(t, Signup) /\ LastWasSamePair(t, Signup) /\ last.status = 201)
            => /\ response[t] = 400
               /\ Occurrences(call[t].email,
                     get_activities[call[t].activity_name].participants) = 1

C1_Witness ==
    \E t \in Threads :
        /\ Finished(t, Signup) /\ LastWasSamePair(t, Signup) /\ last.status = 201
        /\ call[t].email = NewStudent
        /\ response[t] = 400

\* C2: two signups of the same pair running concurrently never both answer
\* 201, and the email is never inserted twice.
C2_ConcurrentSignupAtomic ==
    /\ \A name \in DOMAIN activities :
          \A e \in Range(activities[name].participants) :
              Occurrences(e, activities[name].participants) <= 1
    /\ \A t, u \in Threads :
          (t # u /\ Finished(t, Signup) /\ Finished(u, Signup)
               /\ call[t].activity_name = call[u].activity_name
               /\ call[t].email = call[u].email)
            => ~(response[t] = 201 /\ response[u] = 201)

\* what the signup logic answers from the store the call found
SignupAnswer(name, email, store) ==
    IF name \notin DOMAIN store THEN 404
    ELSE IF email \in Range(store[name].participants) THEN 400
    ELSE 201

\* C3: a POST to /activities/{name}/signup reaches signup_for_activity and
\* is answered 201 (the email then being in the list), 404 or 400.
C3_PostSignupReachesHandler ==
    \A t \in Threads :
        (pc[t] = "done" /\ call[t].method = "POST" /\ call[t].path = SignupPath)
            => /\ call[t].endpoint = Signup
               /\ response[t] = SignupAnswer(call[t].activity_name, call[t].email, pre)
               /\ response[t] = 201 =>
                     call[t].email \in Range(activities[call[t].activity_name].participants)

\* C4: a call of signup or unregister for a name that is not in the store
\* never gets to the membership check, answers 404 and leaves the store as
\* it was, whatever the email.
C4_UnknownActivityNotFound ==
    \A t \in Threads :
        (call[t].endpoint \in {Signup, Unregister}
              /\ call[t].activity_name \notin DOMAIN activities)
            => /\ pc[t] = "done"
               /\ response[t] = 404
               /\ activities = pre

C4_Witness ==
    \E t \in Threads :
        /\ Finished(t, Unregister)
        /\ call[t].activity_name = UnknownClub
        /\ call[t].email = Michael
        /\ response[t] = 404
        /\ last.endpoint = Signup
        /\ last.activity_name = UnknownClub
        /\ last.status = 404

\* C5: unregister of an email that is not in the list of an existing
\* activity answers 400 and leaves every list as it was.
C5_UnregisterNotEnrolled ==
    \A t \in Threads :
        (Finished(t, Unregister)
              /\ call[t].activity_name \in DOMAIN pre
              /\ call[t].email \notin Range(pre[call[t].activity_name].participants))
            => /\ response[t] = 400
               /\ activities = pre

\* reached for an email that was enrolled and has since been unregistered
C5_Witness ==
    \E t \in Threads :
        /\ Finished(t, Unregister)
        /\ call[t].email = Michael
        /\ call[t].activity_name = ChessClub
        /\ LastWasSamePair(t, Unregister) /\ last.status = 200
        /\ response[t] = 400

\* C6: unregister right after a successful signup of the same pair answers
\* 200, the email is not in the list and the list is the one signup found.
C6_SignupUnregisterRoundTrip ==
    \A t \in Threads :
        (Finished(t, Unregister) /\ LastWasSamePair(t, Signup) /\ last.status = 201)
            => LET name == call[t].activity_name
               IN  /\ response[t] = 200
                   /\ call[t].email \notin Range(get_activities[name].participants)
                   /\ get_activities[name].participants = last.pre[name].participants
                   /\ activities = last.pre

C6_Witness ==
    \E t \in Threads :
        /\ Finished(t, Unregister) /\ LastWasSamePair(t, Signup) /\ last.status = 201
        /\ call[t].activity_name = ChessClub
        /\ call[t].email = NewStudent
        /\ response[t] = 200

\* C7: signup of an email that is not in the list of an existing activity
\* answers 201 and adds it whatever the length of the list, and
\* max_participants is never changed.
C7_CapacityNotEnforced ==
    /\ \A name \in DOMAIN activities :
          activities[name].max_participants = SeedActivities[name].max_participants
    /\ \A t \in Threads :
          (Finished(t, Signup)
                /\ call[t].activity_name \in DOMAIN pre
                /\ call[t].email \notin Range(pre[call[t].activity_name].participants))
             => /\ response[t] = 201
                /\ activities[call[t].activity_name].participants =
                      Append(pre[call[t].activity_name].participants, call[t].email)

\* a signup that succeeded on a full activity, which now exceeds its capacity
C7_Witness ==
    \E t \in Threads :
        /\ Finished(t, Signup)
        /\ response[t] = 201
        /\ call[t].activity_name = MathClub
        /\ Len(pre[MathClub].participants) >= pre[MathClub].max_participants
        /\ Len(activities[MathClub].participants) > activities[MathClub].max_participants

\* C9: a call of unregister ends with 200, 404 or 400, also when it runs
\* concurrently with other calls for the same pair.
C9_UnregisterOutcomes ==
    \A t \in Threads :
        Finished(t, Unregister) => response[t] \in {200, 404, 400}

SameExcept(name, email) ==
    /\ DOMAIN activities = DOMAIN pre
    /\ \A other \in DOMAIN pre :
          /\ activities[other].description = pre[other].description
          /\ activities[other].schedule = pre[other].schedule
          /\ activities[other].max_participants = pre[other].max_participants
          /\ other # name => activities[other].participants = pre[other].participants
    /\ Without(activities[name].participants, email) = Without(pre[name].participants, email)

\* C10: a successful signup or unregister changes only the membership of
\* its email in its activity: names, descriptions, schedules, capacities,
\* the other lists and the order of the other emails stay, signup puts the
\* email at the end; get_activities changes nothing.
C10_Frame ==
    \A t \in Threads :
        /\ (Finished(t, Signup) /\ response[t] = 201)
              => /\ SameExcept(call[t].activity_name, call[t].email)
                 /\ activities[call[t].activity_name].participants =
                       pre[call[t].activity_name].participants \o <<call[t].email>>
        /\ (Finished(t, Unregister) /\ response[t] = 200)
              => /\ SameExcept(call[t].activity_name, call[t].email)
                 /\ call[t].email \notin Range(activities[call[t].activity_name].participants)
        /\ Finished(t, "get_activities") => (response[t] = 200 /\ activities = pre)

\* a signup at the end of a list whose first entry had left and come back
C10_Witness ==
    \E t \in Threads :
        /\ Finished(t, Signup) /\ response[t] = 201
        /\ call[t].activity_name = ChessClub
        /\ call[t].email = NewStudent
        /\ pre[ChessClub].participants = <<Daniel, Michael>>
        /\ activities[ProgrammingClass].participants = <<Emma, Sophia, NewStudent>>

====
